---- MODULE Spec2Model ----
(***************************************************************************)
(* Steady-state thermal equilibrium model of src/main.py: Location,        *)
(* Surface, the HeatSource hierarchy (HeatSource, Turbine, Reactor,        *)
(* SolarAbsorber, Photovoltaic) and ThermalLoop.                           *)
(*                                                                         *)
(* Fixed-point units (the source computes in floats):                      *)
(*   temperature  kelvin, integer grid                                     *)
(*   power        milliwatt                                                *)
(*   emissivity, absorptance   percent                                     *)
(*   areas        0.01 m^2                                                 *)
(*   distance     0.25 AU                                                  *)
(*   photovoltaic model: temperature in ticks of 0.05 K, efficiency in     *)
(*   units of 1e-4 (so that c_t = -0.2e-2 per kelvin is -1 per tick)       *)
(* The reactor catalogue keeps the source's own numbers (W and K).         *)
(***************************************************************************)
EXTENDS Integers, Sequences, FiniteSets, TLC

VARIABLES
    loc,                \* the Location shared by all objects
    surf,               \* Surface objects, by id
    hs,                 \* heat-source objects, by id
    loop,               \* the ThermalLoop object
    pv,                 \* Photovoltaic objects, by id
    temperature_limits, \* Photovoltaic.temperature_limits (class attribute)
    last,               \* the last call made and what it returned or raised
    hist                \* T_C reads since the loop was built or re-equilibrated

vars == <<loc, surf, hs, loop, pv, temperature_limits, last, hist>>

(***************************************************************************)
(* Python values                                                           *)
(***************************************************************************)
\* Python's None for numeric fields and arguments.
None == -1000000
\* Python's None for string arguments.
NoneStr == "<None>"

\* bool(x) for a number or None.
Truthy(x) == x # None /\ x # 0
\* bool(s) for a string or None.
TruthyStr(s) == s # NoneStr /\ s # ""

Ok(v) == [status |-> "ok", value |-> v]
Raise(kind) == [status |-> kind, value |-> None]

RECURSIVE SumSeq(_)
SumSeq(s) == IF s = <<>> THEN 0 ELSE Head(s) + SumSeq(Tail(s))

RECURSIVE MinSeq(_)
MinSeq(s) == IF Len(s) = 1 THEN Head(s)
             ELSE LET m == MinSeq(Tail(s)) IN IF Head(s) < m THEN Head(s) ELSE m

Range(s) == {s[i] : i \in DOMAIN s}

Sign(x) == IF x > 0 THEN 1 ELSE IF x < 0 THEN -1 ELSE 0

(***************************************************************************)
(* Location                                                                *)
(***************************************************************************)
\* 1380.73 W/m^2 at 1 AU, as mW per (percent * 0.01 m^2) at 0.25 AU:
\* 1380.73 * 16 * 1e-4 * 1e3 = 2209.168
SolarConstant == 2209

Location(distance) ==
    [distance_from_sun_au |-> distance,
     q_S |-> SolarConstant \div (distance * distance)]

(***************************************************************************)
(* Surface                                                                 *)
(***************************************************************************)
SurfIds == {1, 2}

\* 2 * cos(deg2rad(angle)) for the angles the model passes (0 and 60).
TwiceCosDeg(angle) == IF angle = 60 THEN 1 ELSE 2

Surface(emission_area, sun_facing_area, emissivity, absorptance, angle_to_sun_deg, temperature_offset) ==
    [emissivity         |-> emissivity,
     absorptance        |-> absorptance,
     emission_area      |-> emission_area,
     sun_facing_area    |-> IF angle_to_sun_deg # 0
                              THEN (sun_facing_area * TwiceCosDeg(angle_to_sun_deg)) \div 2
                              ELSE sun_facing_area,
     temperature_offset |-> temperature_offset,
     T                  |-> None]

\* set_T with the offset dropped, as SolarAbsorber.__init__ writes T.
set_T_NoOffset(s, T) == [s EXCEPT !.T = T]

set_T(s, T) == [s EXCEPT !.T = T + s.temperature_offset]

\* T^4 / 1e8 on integers without leaving 32 bits: with T^2 = a*1e4 + b,
\* T^4/1e8 = a^2 + 2ab/1e4 + b^2/1e8.
Pow4(T) ==
    LET sq == T * T
        a  == sq \div 10000
        b  == sq % 10000
    IN  a * a + (2 * a * b) \div 10000 + (b * b) \div 100000000

\* 5.670374419e-8 W m^-2 K^-4 is 0.567 mW per (percent * 0.01 m^2 * (100 K)^4).
SigmaNum == 567
SigmaDen == 1000

\* x * SigmaNum / SigmaDen without overflow.
TimesSigma(x) ==
    (x \div SigmaDen) * SigmaNum + ((x % SigmaDen) * SigmaNum) \div SigmaDen

radiated_heat(s, T) ==
    LET T_perceived == T + s.temperature_offset
    IN  TimesSigma(s.emissivity * s.emission_area * Pow4(T_perceived))

direct_solar_thermal_heat_received(s, l) ==
    l.q_S * s.absorptance * s.sun_facing_area

\* A "surfaces"/"radiators" argument: its Python shape and the surfaces in it.
clean_surfaces_input(arg) ==
    IF arg.shape = "Surface" THEN Ok(arg.ids)
    ELSE IF arg.shape = "dict" THEN Ok(arg.ids)
    ELSE IF arg.shape = "list" THEN Ok(arg.ids)
    ELSE Raise("ValueError")

(***************************************************************************)
(* HeatSource, PowerSource, Turbine                                        *)
(***************************************************************************)
HsIds == {1, 2, 3}

Unbuilt == [cls |-> "unbuilt", _q_w |-> None, _w |-> None, qt |-> None,
            T_H |-> None, T_C |-> None, surfaces |-> <<>>]

HeatSource(q_w) == [Unbuilt EXCEPT !.cls = "HeatSource", !._q_w = q_w]

\* Turbine.__init__ as run by the subclass cls.
Turbine(cls, qt, T_H) ==
    [Unbuilt EXCEPT !.cls = cls, !.qt = qt, !.T_H = T_H, !._w = 0, !._q_w = 0]

\* "T_H" in hs.__dict__
HasT_H(h) == h.cls \in {"Turbine", "Reactor", "SolarAbsorber"}

\* Turbine.eta_p = 0.70, in permille.
eta_p == 700

\* Turbine.eta_T(T_C) = eta_p * eta_C(T_C), in permille.
eta_T(h, T_C) ==
    IF T_C < h.T_H THEN (eta_p * (h.T_H - T_C)) \div h.T_H ELSE 0

\* w = qt * eta_T / 1000 without overflow.
w(h, T_C) ==
    IF HasT_H(h)
      THEN (h.qt \div 1000) * eta_T(h, T_C)
           + ((h.qt % 1000) * eta_T(h, T_C)) \div 1000
      ELSE h._w

q_w(h, T_C) ==
    IF HasT_H(h) THEN h.qt - w(h, T_C) ELSE h._q_w

(***************************************************************************)
(* Reactor                                                                 *)
(***************************************************************************)
reactors ==
    [fission_frontiers |->
        [tarasque |-> [qt |-> 1000000000, T_H |-> 1300],
         guivre   |-> [qt |-> 2000000000, T_H |-> 1100],
         peluda   |-> [qt |-> 1000000000, T_H |-> 600],
         lindworm |-> [qt |-> 500000000,  T_H |-> 950],
         wyvern   |-> [qt |-> 250000000,  T_H |-> 600]],
     fusion_founders |->
        [standard_reactor |-> [qt |-> 300000000, T_H |-> 1300]]]

\* str.lower() on the strings the model passes.
lower(s) ==
    CASE s = "Fission_Frontiers" -> "fission_frontiers"
      [] s = "FUSION_FOUNDERS"   -> "fusion_founders"
      [] s = "Wyvern"            -> "wyvern"
      [] s = "Standard_Reactor"  -> "standard_reactor"
      [] OTHER                   -> s

\* The try block of Reactor.__init__: the catalogue lookup succeeds.
Resolves(brand, model) ==
    /\ lower(brand) \in DOMAIN reactors
    /\ lower(model) \in DOMAIN reactors[lower(brand)]

\* Reactor.__init__ were it to reject a half-given other mode.
Reactor_Strict(qt, T_H, brand, model) ==
    LET custom  == Truthy(qt) /\ Truthy(T_H)
        library == TruthyStr(brand) /\ TruthyStr(model)
        anyC    == qt # None \/ T_H # None
        anyL    == brand # NoneStr \/ model # NoneStr
    IN  IF custom /\ ~anyL THEN Ok(Turbine("Reactor", qt, T_H))
        ELSE IF library /\ ~anyC /\ Resolves(brand, model)
          THEN LET reactor_data == reactors[lower(brand)][lower(model)]
               IN  Ok(Turbine("Reactor", reactor_data.qt, reactor_data.T_H))
        ELSE Raise("ValueError")

Reactor(qt, T_H, brand, model) ==
    LET custom  == Truthy(qt) /\ Truthy(T_H)
        library == TruthyStr(brand) /\ TruthyStr(model)
    IN  IF ~custom /\ ~library THEN Raise("ValueError")
        ELSE IF custom /\ library THEN Raise("ValueError")
        ELSE IF custom THEN Ok(Turbine("Reactor", qt, T_H))
        ELSE IF Resolves(brand, model)
          THEN LET reactor_data == reactors[lower(brand)][lower(model)]
               IN  Ok(Turbine("Reactor", reactor_data.qt, reactor_data.T_H))
        ELSE Raise("ValueError")

(***************************************************************************)
(* Residuals and root finders                                              *)
(***************************************************************************)
\* sum([f(x) for x in ids]) for radiated heat and absorbed solar power.
Q_E(ids, T) == SumSeq([i \in DOMAIN ids |-> radiated_heat(surf[ids[i]], T)])
Q_S(ids, l) ==
    SumSeq([i \in DOMAIN ids |-> direct_solar_thermal_heat_received(surf[ids[i]], l)])

\* The closure absorber_balance of SolarAbsorber.__init__.
absorber_balance(ctx, T_H) == Q_E(ctx.surfaces, T_H) - ctx.sum_qt - ctx.sum_qs

\* ThermalLoop.__radiator_balance
radiator_balance(T_C) ==
    LET Q_W == SumSeq([i \in DOMAIN loop.heat_sources |->
                          q_w(hs[loop.heat_sources[i]], T_C)])
    IN  Q_E(loop.radiators, T_C) - Q_W - Q_S(loop.radiators, loop.loc)

\* The residual a root finder is handed.
Residual(ctx, T) ==
    IF ctx.kind = "absorber" THEN absorber_balance(ctx, T)
    ELSE radiator_balance(T)

\* Bracketing iteration on the kelvin grid: Sign(Residual(a)) = sa and the
\* residual has the other sign at b; the root lies in (b-1, b].
RECURSIVE Bisect(_, _, _, _)
Bisect(ctx, a, b, sa) ==
    IF b - a <= 1 THEN b
    ELSE LET m  == (a + b) \div 2
             fm == Residual(ctx, m)
         IN  IF fm = 0 THEN m
             ELSE IF Sign(fm) = sa THEN Bisect(ctx, m, b, sa)
             ELSE Bisect(ctx, a, m, sa)

\* toms748 without the sign test of the bracket ends.
toms748_NoSignCheck(ctx, a, b) ==
    IF a >= b THEN Raise("ValueError")
    ELSE Ok(Bisect(ctx, a, b, Sign(Residual(ctx, a))))

\* scipy.optimize.toms748(f, a, b): a root of f in [a, b], ValueError when
\* f(a) and f(b) have the same sign.
toms748(ctx, a, b) ==
    IF a >= b THEN Raise("ValueError")
    ELSE LET fa == Residual(ctx, a)
             fb == Residual(ctx, b)
         IN  IF fa = 0 THEN Ok(a)
             ELSE IF fb = 0 THEN Ok(b)
             ELSE IF Sign(fa) * Sign(fb) > 0 THEN Raise("ValueError")
             ELSE Ok(Bisect(ctx, a, b, Sign(fa)))

\* Search range and downward step of the open root finder on the grid.
NewtonSpan == 10000
NewtonStep == 50

\* Residual(a) <= 0 < Residual(b): the largest grid point that is a root,
\* else the first grid point above the root.
RECURSIVE NewtonBisect(_, _, _)
NewtonBisect(ctx, a, b) ==
    IF b - a <= 1 THEN (IF Residual(ctx, a) = 0 THEN a ELSE b)
    ELSE LET m == (a + b) \div 2
         IN  IF Residual(ctx, m) <= 0 THEN NewtonBisect(ctx, m, b)
             ELSE NewtonBisect(ctx, a, m)

RECURSIVE NewtonDown(_, _)
NewtonDown(ctx, t) ==
    IF t < 0 - NewtonSpan THEN None
    ELSE IF Residual(ctx, t) <= 0 THEN t
    ELSE NewtonDown(ctx, t - NewtonStep)

\* scipy.optimize.newton(f, x0) without a derivative (secant iteration): the
\* residual is convex, the iteration settles on its right-hand root;
\* RuntimeError when the residual has no root in range.
newton(ctx, x0) ==
    IF Residual(ctx, x0) <= 0
      THEN IF Residual(ctx, NewtonSpan) <= 0 THEN Raise("RuntimeError")
           ELSE Ok(NewtonBisect(ctx, x0, NewtonSpan))
      ELSE LET lo == NewtonDown(ctx, x0 - NewtonStep)
           IN  IF lo = None THEN Raise("RuntimeError")
               ELSE Ok(NewtonBisect(ctx, lo, lo + NewtonStep))

(***************************************************************************)
(* SolarAbsorber                                                           *)
(***************************************************************************)
\* The seed 273.15 of the root finder, on the kelvin grid.
NewtonSeed == 273

\* qt is [shape, vals]: a scalar (vals of length 1), a list, or a dict (its
\* values).  The result says what was raised, whether the root finder ran,
\* the object built and the surfaces stamped.
SolarAbsorber(l, qt, surfaces) ==
    LET fail(kind) == [status |-> kind, newton |-> FALSE, obj |-> Unbuilt,
                       stamped |-> <<>>, T_H |-> None, sum_qt |-> None]
    IN
    \* line 177: sum(qt if isinstance(qt, list) else [qt]); 0 + dict raises
    IF qt.shape \notin {"list", "scalar"} THEN fail("TypeError")
    ELSE
    LET sum_qt == IF qt.shape = "scalar" THEN qt.vals[1]
                  ELSE IF qt.shape = "dict" THEN SumSeq(qt.vals)
                  ELSE SumSeq(qt.vals)
        cleaned == clean_surfaces_input(surfaces)
    IN
    IF cleaned.status # "ok" THEN fail("ValueError")
    ELSE
    LET ids    == cleaned.value
        sum_qs == Q_S(ids, l)
    IN
    IF sum_qt > sum_qs THEN fail("ValueError")
    ELSE
    LET ctx == [kind |-> "absorber", surfaces |-> ids,
                sum_qt |-> sum_qt, sum_qs |-> sum_qs]
        r   == newton(ctx, NewtonSeed)
    IN
    IF r.status # "ok" THEN [fail(r.status) EXCEPT !.newton = TRUE]
    ELSE [status  |-> "ok", newton |-> TRUE,
          obj     |-> [Turbine("SolarAbsorber", sum_qt, r.value)
                          EXCEPT !.surfaces = ids],
          stamped |-> ids, T_H |-> r.value, sum_qt |-> sum_qt]

\* "for surf in self.surfaces: surf.T = T_H"
AbsorberStamp(s, T_H) == [s EXCEPT !.T = T_H]


(***************************************************************************)
(* Photovoltaic                                                            *)
(***************************************************************************)
PvIds == {1, 2}

\* Class attributes, in units of 1e-4 (efficiencies) and 0.05 K (temperatures).
non_optimal_illumination_factor_x10 == 8
c_a_at_earth == -340
c_t == -1
limits_min == 3463
limits_max == 8463

PvUnbuilt == [built |-> FALSE, eta_lab |-> None, T_ref |-> None,
              age_years |-> None, eta_non_thermal |-> None,
              surfaces |-> <<>>, total_collection_area |-> None,
              total_radiative_area |-> None]

\* Photovoltaic.__init__: the object, and the surfaces whose absorptance it
\* has set to zero.
Photovoltaic(eta_lab, T_ref, age_years, surfaces) ==
    LET cleaned == clean_surfaces_input(surfaces)
    IN  IF cleaned.status # "ok"
          THEN [status |-> "ValueError", obj |-> PvUnbuilt, zeroed |-> {}]
          ELSE LET ids == cleaned.value
               IN  [status |-> "ok",
                    obj |-> [PvUnbuilt EXCEPT
                        !.built = TRUE, !.eta_lab = eta_lab, !.T_ref = T_ref,
                        !.age_years = age_years, !.surfaces = ids,
                        !.total_collection_area =
                            SumSeq([i \in DOMAIN ids |-> surf[ids[i]].sun_facing_area]),
                        !.total_radiative_area =
                            SumSeq([i \in DOMAIN ids |-> surf[ids[i]].emission_area])],
                    zeroed |-> Range(ids)]

eta_N(p) == (non_optimal_illumination_factor_x10 * p.eta_lab) \div 10

\* c_a_at_earth / distance^2, the distance in units of 0.25 AU.
c_a(l) ==
    0 - ((0 - c_a_at_earth) * 16) \div (l.distance_from_sun_au * l.distance_from_sun_au)

\* Photovoltaic.eta_overall: the value returned, the instance and the class
\* attribute after the call.
eta_overall(p, limits, l, T_C) ==
    IF T_C <= limits.min THEN [value |-> 0, obj |-> p, limits |-> limits]
    ELSE IF T_C >= limits.max THEN [value |-> 0, obj |-> p, limits |-> limits]
    ELSE
    LET first == p.eta_non_thermal = None
        ent   == IF first THEN eta_N(p) + p.age_years * c_a(l)
                 ELSE p.eta_non_thermal
        lim   == IF first
                   THEN [limits EXCEPT !.max = (ent \div (0 - c_t)) + p.T_ref]
                   ELSE limits
    IN  [value  |-> ent + c_t * (T_C - p.T_ref),
         obj    |-> [p EXCEPT !.eta_non_thermal = ent],
         limits |-> lim]

(***************************************************************************)
(* ThermalLoop                                                             *)
(***************************************************************************)
\* The placeholder 10e3 appended to the hot-side temperatures.
Placeholder == 10000

LoopUnbuilt == [built |-> FALSE, loc |-> None, _T_C |-> None, min_T_H |-> None,
                heat_sources |-> <<>>, radiators |-> <<>>]

\* The bracket bound as documented: the minimum hot-side temperature of the
\* heat sources that have one, the placeholder when none has.
MinExposedT_H(ids) ==
    LET withT == SelectSeq(ids, LAMBDA i : HasT_H(hs[i]))
    IN  IF withT = <<>> THEN Placeholder
        ELSE MinSeq([i \in DOMAIN withT |-> hs[withT[i]].T_H])

\* lines 295-297
min_T_H(ids) ==
    LET withT == SelectSeq(ids, LAMBDA i : HasT_H(hs[i]))
        hsT_H == [i \in DOMAIN withT |-> hs[withT[i]].T_H]
    IN  MinSeq(Append(hsT_H, Placeholder))

\* ThermalLoop.__init__; heat_sources is [shape, ids] like a surfaces argument.
ThermalLoop(l, heat_sources, radiators) ==
    IF heat_sources.shape \notin {"HeatSource", "dict", "list"}
      THEN Raise("ValueError")
    ELSE LET cleaned == clean_surfaces_input(radiators)
         IN  IF cleaned.status # "ok" THEN Raise("ValueError")
             ELSE Ok([built |-> TRUE, loc |-> l, _T_C |-> None,
                      min_T_H |-> min_T_H(heat_sources.ids),
                      heat_sources |-> heat_sources.ids,
                      radiators |-> cleaned.value])

\* Depth of nested T_C -> equilibrate calls at which Python gives up.
RecursionLimit == 3

\* equilibrate were it to clear the cache before the solve.
equilibrate_ClearsFirst(depth) ==
    LET r == toms748([kind |-> "loop"], 0, loop.min_T_H)
    IN  IF r.status # "ok"
          THEN [status |-> "ValueError", value |-> None, roots |-> 0,
                wrote |-> TRUE, cache |-> None]
          ELSE [status |-> "ok", value |-> r.value, roots |-> 1,
                wrote |-> TRUE, cache |-> r.value]

\* ThermalLoop.equilibrate up to its return, together with the T_C reads it
\* makes (lines 318-321), each of which calls equilibrate again while the
\* cache is falsy.  status/value: what the call returns or raises; roots:
\* how many times the root finder returned; wrote/cache: the assignment made
\* to self._T_C.
RECURSIVE equilibrate(_)
equilibrate(depth) ==
    IF depth > RecursionLimit
      THEN [status |-> "RecursionError", value |-> None, roots |-> 0,
            wrote |-> FALSE, cache |-> None]
    ELSE
    LET r == toms748([kind |-> "loop"], 0, loop.min_T_H)
    IN  IF r.status # "ok"
          THEN [status |-> "ValueError", value |-> None, roots |-> 0,
                wrote |-> FALSE, cache |-> None]
        ELSE IF Truthy(r.value)
          THEN [status |-> "ok", value |-> r.value, roots |-> 1,
                wrote |-> TRUE, cache |-> r.value]
        ELSE LET inner == equilibrate(depth + 1)
             IN  [status |-> inner.status, value |-> inner.value,
                  roots |-> 1 + inner.roots, wrote |-> TRUE,
                  cache |-> IF inner.wrote THEN inner.cache ELSE r.value]

\* The fields a successful equilibrate stamps (lines 317-320).
StampSurfaces(T) ==
    [s \in SurfIds |->
        IF s \in Range(loop.radiators) THEN set_T(surf[s], T) ELSE surf[s]]
StampHeatSources(T) ==
    [h \in HsIds |->
        IF h \in Range(loop.heat_sources) THEN [hs[h] EXCEPT !.T_C = T] ELSE hs[h]]

(***************************************************************************)
(* State machine                                                           *)
(***************************************************************************)
\* Saturation of the root-finder count kept in hist.
SolveCap == 5

Min(a, b) == IF a < b THEN a ELSE b

NoCall == [op |-> "none", status |-> "ok", value |-> None]
NoHist == [roots |-> 0, first |-> None]

ClassLimits == [min |-> limits_min, max |-> limits_max]

\* The thermal scenario: two surfaces, a plain heat source, a reactor given
\* by (qt, T_H), and a slot for a solar absorber.
ThermalInit(a1, o1, q1, th) ==
    /\ loc = Location(1)
    /\ surf = [s \in SurfIds |->
                  IF s = 1 THEN Surface(1, 1, 1, a1, 0, o1)
                  ELSE Surface(2, 2, 1, 50, 60, -100)]
    /\ hs = [h \in HsIds |->
                IF h = 1 THEN HeatSource(q1)
                ELSE IF h = 2 THEN Reactor(1000, th, NoneStr, NoneStr).value
                ELSE Unbuilt]
    /\ loop = LoopUnbuilt
    /\ pv = [i \in PvIds |-> PvUnbuilt]
    /\ temperature_limits = ClassLimits
    /\ last = NoCall
    /\ hist = NoHist

\* SolarAbsorber(loc, qt, surfaces)
NewSolarAbsorber(qt, surfaces) ==
    /\ ~loop.built
    /\ hs[3].cls = "unbuilt"
    /\ \E r \in {SolarAbsorber(loc, qt, surfaces)} :
           /\ hs' = IF r.status = "ok" THEN [hs EXCEPT ![3] = r.obj] ELSE hs
           /\ surf' = [s \in SurfIds |->
                          IF s \in Range(r.stamped)
                            THEN AbsorberStamp(surf[s], r.T_H) ELSE surf[s]]
           /\ last' = [op |-> "SolarAbsorber", status |-> r.status,
                       value |-> r.T_H, newton |-> r.newton,
                       qt |-> qt, surfaces |-> surfaces]
    /\ UNCHANGED <<loc, loop, pv, temperature_limits, hist>>

\* Photovoltaic(loc, eta_lab, T_ref, age_years, surfaces)
NewPhotovoltaic(surfaces) ==
    /\ ~pv[1].built
    /\ LET r == Photovoltaic(3300, 5963, 0, surfaces)
       IN  /\ pv' = [pv EXCEPT ![1] = r.obj]
           /\ surf' = [s \in SurfIds |->
                          IF s \in r.zeroed /\ surf[s].absorptance # 0
                            THEN [surf[s] EXCEPT !.absorptance = 0] ELSE surf[s]]
           /\ last' = [op |-> "Photovoltaic", status |-> r.status, value |-> None]
    /\ UNCHANGED <<loc, hs, loop, temperature_limits, hist>>

\* ThermalLoop(loc, heat_sources, radiators)
NewThermalLoop(heat_sources, radiators) ==
    /\ ~loop.built
    /\ \A h \in Range(heat_sources.ids) : hs[h].cls # "unbuilt"
    /\ LET r == ThermalLoop(loc, heat_sources, radiators)
       IN  /\ loop' = IF r.status = "ok" THEN r.value ELSE loop
           /\ last' = [op |-> "ThermalLoop", status |-> r.status, value |-> None]
    /\ hist' = NoHist
    /\ UNCHANGED <<loc, surf, hs, pv, temperature_limits>>

\* loop.equilibrate()
Equilibrate ==
    /\ loop.built
    /\ \E r \in {equilibrate(1)} :
           /\ loop' = IF r.wrote THEN [loop EXCEPT !._T_C = r.cache] ELSE loop
           /\ surf' = IF r.status = "ok" THEN StampSurfaces(r.value) ELSE surf
           /\ hs' = IF r.status = "ok" THEN StampHeatSources(r.value) ELSE hs
           /\ last' = [op |-> "equilibrate", status |-> r.status,
                       value |-> r.value, solved |-> TRUE]
    /\ hist' = NoHist
    /\ UNCHANGED <<loc, pv, temperature_limits>>

\* loop.T_C
ReadT_C ==
    /\ loop.built
    /\ IF Truthy(loop._T_C)
         THEN /\ last' = [op |-> "T_C", status |-> "ok", value |-> loop._T_C,
                          solved |-> FALSE]
              /\ hist' = [hist EXCEPT !.first =
                             IF @ = None THEN loop._T_C ELSE @]
              /\ UNCHANGED <<loop, surf, hs>>
         ELSE \E r \in {equilibrate(1)} :
                  /\ loop' = IF r.wrote THEN [loop EXCEPT !._T_C = r.cache] ELSE loop
                  /\ surf' = IF r.status = "ok" THEN StampSurfaces(r.value) ELSE surf
                  /\ hs' = IF r.status = "ok" THEN StampHeatSources(r.value) ELSE hs
                  /\ last' = [op |-> "T_C", status |-> r.status,
                              value |-> r.value, solved |-> TRUE]
                  /\ hist' = [roots |-> Min(hist.roots + r.roots, SolveCap),
                              first |-> IF hist.first = None /\ r.status = "ok"
                                          THEN r.value ELSE hist.first]
    /\ UNCHANGED <<loc, pv, temperature_limits>>

\* ---- thermal loops -------------------------------------------------------
LoopSurfaceArgs ==
    {[shape |-> "Surface", ids |-> <<1>>], [shape |-> "list", ids |-> <<1, 2>>],
     [shape |-> "other", ids |-> <<>>]}
LoopHeatSourceArgs ==
    {[shape |-> "HeatSource", ids |-> <<1>>], [shape |-> "HeatSource", ids |-> <<2>>],
     [shape |-> "list", ids |-> <<1, 2>>], [shape |-> "dict", ids |-> <<1, 3>>],
     [shape |-> "other", ids |-> <<>>]}
LoopAbsorberQt == [shape |-> "scalar", vals |-> <<100000>>]
LoopAbsorberSurfaces == [shape |-> "Surface", ids |-> <<2>>]

InitLoop ==
    \E q1 \in {0, 100000, 100000000}, th \in {600, 12000} : ThermalInit(50, 0, q1, th)

NextLoop ==
    \/ NewSolarAbsorber(LoopAbsorberQt, LoopAbsorberSurfaces)
    \/ \E a \in LoopSurfaceArgs : NewPhotovoltaic(a)
    \/ \E h \in LoopHeatSourceArgs, a \in LoopSurfaceArgs : NewThermalLoop(h, a)
    \/ Equilibrate
    \/ ReadT_C

Spec == InitLoop /\ [][NextLoop]_vars

\* ---- solar absorbers -----------------------------------------------------
SurfaceArgs ==
    {[shape |-> "Surface", ids |-> <<1>>], [shape |-> "Surface", ids |-> <<2>>],
     [shape |-> "list", ids |-> <<1, 2>>], [shape |-> "dict", ids |-> <<2>>],
     [shape |-> "other", ids |-> <<>>]}
QtArgs ==
    {[shape |-> "scalar", vals |-> <<0>>], [shape |-> "scalar", vals |-> <<100000>>],
     [shape |-> "scalar", vals |-> <<3000000>>],
     [shape |-> "list", vals |-> <<>>], [shape |-> "list", vals |-> <<60000, 40000>>],
     [shape |-> "list", vals |-> <<3000000, 1>>],
     [shape |-> "dict", vals |-> <<60000, 40000>>],
     [shape |-> "dict", vals |-> <<3000000>>]}

InitAbsorber ==
    \E a1 \in {0, 50}, o1 \in {0, -100} : ThermalInit(a1, o1, 0, 600)

NextAbsorber ==
    \/ \E qt \in QtArgs, a \in SurfaceArgs : NewSolarAbsorber(qt, a)
    \/ \E a \in SurfaceArgs : NewPhotovoltaic(a)

SpecAbsorber == InitAbsorber /\ [][NextAbsorber]_vars

\* ---- reactor construction ----------------------------------------------
QtValues   == {None, 0, 250}
T_HValues  == {None, 0, 600}
BrandArgs  == {NoneStr, "", "fission_frontiers", "Fission_Frontiers",
               "fusion_founders", "acme"}
ModelArgs  == {NoneStr, "", "wyvern", "Wyvern", "standard_reactor", "tarasque"}

InitReactor ==
    /\ loc = Location(1)
    /\ surf = [s \in SurfIds |-> Surface(1, 1, 1, 0, 0, 0)]
    /\ hs = [h \in HsIds |-> Unbuilt]
    /\ loop = LoopUnbuilt
    /\ pv = [i \in PvIds |-> PvUnbuilt]
    /\ temperature_limits = ClassLimits
    /\ last = NoCall
    /\ hist = NoHist

\* Reactor(qt, T_H, brand, model)
NewReactor(qt, T_H, brand, model) ==
    /\ LET r == Reactor(qt, T_H, brand, model)
       IN  /\ hs' = IF r.status = "ok" THEN [hs EXCEPT ![2] = r.value] ELSE hs
           /\ last' = [op |-> "Reactor", status |-> r.status, value |-> None,
                       qt |-> qt, T_H |-> T_H, brand |-> brand, model |-> model]
    /\ UNCHANGED <<loc, surf, loop, pv, temperature_limits, hist>>

NextReactor ==
    \E qt \in QtValues, T_H \in T_HValues, brand \in BrandArgs, model \in ModelArgs :
        NewReactor(qt, T_H, brand, model)

SpecReactor == InitReactor /\ [][NextReactor]_vars

\* ---- photovoltaic efficiency -------------------------------------------
\* Cell temperatures (0.05 K ticks): 173.15, 300, 420, 423.15, 428 and 435 K.
CellTemperatures == {3463, 6000, 8400, 8463, 8560, 8700}

InitPV ==
    \E d \in {1, 4}, age1 \in {0, 1}, age2 \in {0, 1} :
        /\ loc = Location(d)
        /\ surf = [s \in SurfIds |-> Surface(1, 1, 1, 0, 0, 0)]
        /\ hs = [h \in HsIds |-> Unbuilt]
        /\ loop = LoopUnbuilt
        /\ pv = [i \in PvIds |->
                    IF i = 1
                      THEN Photovoltaic(3000, 5963, age1,
                                        [shape |-> "Surface", ids |-> <<1>>]).obj
                      ELSE Photovoltaic(3300, 5963, age2,
                                        [shape |-> "Surface", ids |-> <<2>>]).obj]
        /\ temperature_limits = ClassLimits
        /\ last = NoCall
        /\ hist = NoHist

\* pv[i].eta_overall(T_C)
EtaOverall(i, T_C) ==
    /\ pv[i].built
    /\ LET r == eta_overall(pv[i], temperature_limits, loc, T_C)
       IN  /\ pv' = [pv EXCEPT ![i] = r.obj]
           /\ temperature_limits' = r.limits
           /\ last' = [op |-> "eta_overall", status |-> "ok", value |-> r.value,
                       i |-> i, T_C |-> T_C]
    /\ UNCHANGED <<loc, surf, hs, loop, hist>>

NextPV == \E i \in PvIds, T_C \in CellTemperatures : EtaOverall(i, T_C)

SpecPV == InitPV /\ [][NextPV]_vars

(***************************************************************************)
(* Properties                                                              *)
(***************************************************************************)
\* The loop of the example: one plain 100 W heat source, one radiator of
\* 0.01 m^2 and emissivity 0.01 that absorbs no solar power.
ExampleLoop ==
    /\ loop.built
    /\ loop.heat_sources = <<1>>
    /\ hs[1].cls = "HeatSource" /\ hs[1]._q_w = 100000
    /\ loop.radiators = <<1>>
    /\ surf[1].emission_area = 1 /\ surf[1].emissivity = 1
    /\ surf[1].temperature_offset = 0
    /\ direct_solar_thermal_heat_received(surf[1], loop.loc) = 0

\* The radiators cannot emit the heat load anywhere up to the top of the
\* bracket: the residual is negative at both ends of [0, min_T_H].
TooSmall ==
    /\ loop.built
    /\ radiator_balance(0) < 0
    /\ radiator_balance(loop.min_T_H) < 0

\* C1 as stated: equilibrate on a loop whose radiators are too small raises
\* the infeasible-equilibrium error and returns no temperature, and the
\* 100 W / 0.01 m^2 / emissivity 0.01 example is such a loop.
C1_Original ==
    (last.op = "equilibrate" /\ (TooSmall \/ ExampleLoop))
        => (last.status = "ValueError" /\ last.value = None)

\* C1 amended: equilibrate raises the infeasible-equilibrium error and
\* returns no temperature whenever the residual is negative at both ends of
\* the bracket; on the example loop the residual changes sign inside
\* [0, 10000 K] and equilibrate returns a T_C near 2050 K.
C1_Amended ==
    /\ (last.op = "equilibrate" /\ TooSmall)
           => (last.status = "ValueError" /\ last.value = None)
    /\ (last.op = "equilibrate" /\ ExampleLoop)
           => (last.status = "ok" /\ last.value \in 2040..2060)

C1_Witness ==
    /\ last.op = "equilibrate" /\ TooSmall /\ last.status = "ValueError"
    /\ loop.min_T_H = Placeholder

\* C2: over the reads of T_C made since the loop was built or explicitly
\* equilibrated, the root finder returns at most once, and every read that
\* returns gives the value of the first read.
C2_Original ==
    /\ hist.roots <= 1
    /\ (last.op = "T_C" /\ last.status = "ok") => last.value = hist.first

\* C3: after a successful equilibrate (explicit, or run by the T_C accessor)
\* the cache holds the returned value, every heat source of the loop has
\* T_C equal to it and every radiator has T equal to it plus its offset.
C3_Stamped ==
    (last.op \in {"equilibrate", "T_C"} /\ last.solved /\ last.status = "ok")
        => /\ loop._T_C = last.value
           /\ \A h \in Range(loop.heat_sources) : hs[h].T_C = loop._T_C
           /\ \A s \in Range(loop.radiators) :
                  surf[s].T = loop._T_C + surf[s].temperature_offset

C3_Witness ==
    /\ last.op = "equilibrate" /\ last.status = "ok"
    /\ pv[1].built
    /\ Len(loop.heat_sources) = 2 /\ Len(loop.radiators) = 2
    /\ \E s \in Range(loop.radiators) : surf[s].temperature_offset # 0

\* The total of a qt argument and whether it exceeds the solar power the
\* surfaces absorb.
TotalQt(qt) == IF qt.shape = "scalar" THEN qt.vals[1] ELSE SumSeq(qt.vals)
Exceeds(qt, surfaces) ==
    /\ clean_surfaces_input(surfaces).status = "ok"
    /\ TotalQt(qt) > Q_S(surfaces.ids, loc)

\* C4: a SolarAbsorber whose total qt exceeds the absorbed solar power raises
\* the configuration error before the root finder runs and writes neither a
\* surface's T nor an absorber.
C4_Original ==
    [][(last'.op = "SolarAbsorber" /\ Exceeds(last'.qt, last'.surfaces))
          => /\ last'.status = "ValueError"
             /\ ~last'.newton
             /\ surf' = surf
             /\ hs' = hs]_vars

\* C5: a scalar, list or mapping qt is reduced to its total, which is
\* compared with the absorbed solar power and becomes the extracted power.
C5_Original ==
    (last.op = "SolarAbsorber" /\ clean_surfaces_input(last.surfaces).status = "ok")
        => IF Exceeds(last.qt, last.surfaces)
             THEN last.status = "ValueError"
             ELSE \/ last.status = "RuntimeError"
                  \/ last.status = "ok" /\ hs[3].qt = TotalQt(last.qt)

\* C6: the loop's bracket bound is the least hot-side temperature among its
\* heat sources that have one, and the placeholder only when none has.
C6_Original ==
    loop.built => loop.min_T_H = MinExposedT_H(loop.heat_sources)

\* C7 as stated: construction succeeds exactly when one mode is given alone,
\* both arguments of the other mode absent.  An argument counts as given
\* when the code reads it as given (it is truthy).
C7_Original ==
    last.op = "Reactor" =>
        (last.status = "ok" <=>
            \/ /\ Truthy(last.qt) /\ Truthy(last.T_H)
               /\ ~TruthyStr(last.brand) /\ ~TruthyStr(last.model)
            \/ /\ TruthyStr(last.brand) /\ TruthyStr(last.model)
               /\ Resolves(last.brand, last.model)
               /\ ~Truthy(last.qt) /\ ~Truthy(last.T_H))

\* C7 amended: construction succeeds exactly when exactly one pair is
\* complete, an argument counting only if it is truthy, and a complete
\* catalogue pair resolves; a half-given other pair is ignored.
C7_Amended ==
    last.op = "Reactor" =>
        LET custom  == Truthy(last.qt) /\ Truthy(last.T_H)
            library == TruthyStr(last.brand) /\ TruthyStr(last.model)
        IN  last.status = "ok" <=>
                \/ custom /\ ~library
                \/ library /\ ~custom /\ Resolves(last.brand, last.model)

C7_Witness ==
    /\ last.op = "Reactor" /\ last.status = "ok"
    /\ last.qt = 250 /\ last.T_H = 600
    /\ last.brand = "acme" /\ last.model = NoneStr
    /\ hs[2].qt = 250

\* The upper limit derived from an instance's own parameters.
DerivedMax(p) == ((eta_N(p) + p.age_years * c_a(loc)) \div (0 - c_t)) + p.T_ref

\* C8: eta_overall returns 0 at or below the lower limit and at or above the
\* calling instance's own derived upper limit, and is never negative.
C8_Original ==
    last.op = "eta_overall" =>
        /\ (last.T_C <= limits_min \/ last.T_C >= DerivedMax(pv[last.i]))
               => last.value = 0
        /\ last.value >= 0

\* C9: an equilibrate that fails with the infeasible-equilibrium error
\* leaves the cache, every radiator and every heat source as they were.
C9_FailureFrame ==
    [][(last'.op \in {"equilibrate", "T_C"} /\ last'.status = "ValueError")
          => (loop' = loop /\ surf' = surf /\ hs' = hs)]_vars

C9_Witness ==
    /\ last.op = "equilibrate" /\ last.status = "ValueError"
    /\ Truthy(loop._T_C)
    /\ \A s \in Range(loop.radiators) : surf[s].T # None

\* C10: the value SolarAbsorber writes into a surface's T for a solved
\* temperature is the value ThermalLoop.equilibrate writes for the same
\* temperature.
C10_Original ==
    (last.op = "SolarAbsorber" /\ last.status = "ok")
        => \A s \in Range(last.surfaces.ids) :
               surf[s].T = set_T(surf[s], last.value).T

====
